---- MODULE Spec2Model ----
(***************************************************************************)
(* Model of the concurrent transaction broadcaster of                      *)
(* solana-rpc-transactions/src/main.rs: send_transactions spawns one tokio *)
(* task per (sender, receiver) pair; each task runs send_sol and then      *)
(* check_transaction_status, printing its result lines; send_transactions  *)
(* then awaits every JoinHandle in push order.                             *)
(*                                                                         *)
(* The ledger (RpcClient) is the environment: each of its three calls      *)
(* returns a nondeterministically chosen result.  A task's call to the     *)
(* ledger and the call's return are separate steps, so tasks interleave    *)
(* at the granularity of ledger calls.                                     *)
(***************************************************************************)
EXTENDS Integers, Sequences, FiniteSets, TLC

\* ------------------------------------------------------------------ bounds
MaxSenders == 2
MaxReceivers == 2
MaxUnits == 4
MaxDelay == 2
MaxStrLen == 5
MaxUpdates == 10
MaxCalls == 3
MaxSingleCalls == 1
MaxWallets == 2
MaxAttempts == 3

\* ------------------------------------------------------- program constants
LAMPORTS == 2000000
ChannelCapacity == 8
RentExemptMinimum == 890880
RetrySeconds == 3

\* --------------------------------------------------------------- variables
VARIABLES
    senders,      \* Vec<SenderWallet> returned by process_wallets (wallet ids)
    receivers,    \* Vec<ReceiverWallet> returned by process_wallets
    delay,        \* latency of each ledger call, fixed per run
    main_pc,      \* position of send_transactions: "spawn", "join", "done"
    exit_status,  \* "running", "ok" (main returned), "panic" (main panicked)
    tasks,        \* Vec<JoinHandle>: the pairs spawned so far, in push order
    joined,       \* number of handles of tasks already awaited
    pc,           \* per pair: position of its task
    trace,        \* per pair: the operations its task has performed, in order
    printed,      \* per pair: the lines its task has printed, in order
    clock,        \* per pair: time that has passed in the task
    start_time,   \* per pair: Instant::now() taken by the task (-1: not yet)
    duration,     \* per pair: start_time.elapsed() recorded (-1: not yet)
    blockhash_res,\* per pair: result of get_latest_blockhash ("none" before)
    send_res,     \* per pair: result of send_and_confirm_transaction
    status_res,   \* per pair: result of get_signature_status
    transaction,  \* per pair: the Transaction send_sol has built
    \* --- parse_bytes_from_string
    input,        \* the &str argument, a sequence of characters
    parsed,       \* the Result returned (done: the call has returned)
    \* --- task-3: the streaming trigger
    stream_pc,    \* main's subscription loop: "subscribed", "ended"
    updates,      \* number of block updates the loop has received
    pending,      \* spawned trigger tasks that have not sent their message
    chan,         \* number of messages queued in the mpsc channel
    sender_pc,    \* the sender task: "setup", "recv", "busy", "returned",
                  \* "panicked", "closed"
    transfers,    \* the transfers started so far, each with its position
    \* --- solana-smart-contracts: the deposit program
    user_account,    \* the user's account: lamports, owner
    deposit_account, \* the deposit account: lamports, owner
    calls,           \* the calls of process_instruction made so far
    \* --- solana-rpc-connect: the balance checker
    rc_pc,        \* position of main: "start", "spawn", "join", "health",
                  \* "sleep", "print", "done", "panicked"
    rc_wallets,   \* config.wallets, as the number of its entries
    rc_task,      \* per wallet: its get_balance task ("unspawned",
                  \* "running", or the result the task ended with)
    rc_joined,    \* number of get_balance tasks awaited
    rc_results,   \* the Vec get_balances has collected
    rc_health,    \* what each await of a health check task gave, in order
    rc_printed,   \* the lines main has printed, in order, each a tuple
                  \* of its text and, for a balance, wallet and result
    rc_clock      \* seconds main has slept

vars == <<senders, receivers, delay, main_pc, exit_status, tasks, joined,
          pc, trace, printed, clock, start_time, duration,
          blockhash_res, send_res, status_res, transaction,
          input, parsed,
          stream_pc, updates, pending, chan, sender_pc, transfers,
          user_account, deposit_account, calls,
          rc_pc, rc_wallets, rc_task, rc_joined, rc_results, rc_health,
          rc_printed, rc_clock>>

mainVars == <<main_pc, exit_status, tasks, joined>>
configVars == <<senders, receivers, delay>>
taskVars == <<pc, trace, printed, clock, start_time, duration,
              blockhash_res, send_res, status_res, transaction>>
broadcastVars == <<configVars, mainVars, taskVars>>
parseVars == <<input, parsed>>
streamVars == <<stream_pc, updates, pending, chan, sender_pc, transfers>>
depositVars == <<user_account, deposit_account, calls>>

\* the variables of the other programs of the repository, which the
\* broadcaster does not touch
balanceVars == <<rc_pc, rc_wallets, rc_task, rc_joined, rc_results,
                 rc_health, rc_printed, rc_clock>>
otherThanBroadcast == <<parseVars, streamVars, depositVars, balanceVars>>

\* parse_bytes_from_string has not been called
ParseIdle ==
    /\ input = <<>>
    /\ parsed = [done |-> FALSE, ok |-> FALSE, bytes |-> <<>>]

\* task-3 has subscribed and spawned its sender task, nothing else
StreamStart ==
    /\ stream_pc = "subscribed"
    /\ updates = 0
    /\ pending = 0
    /\ chan = 0
    /\ sender_pc = "setup"
    /\ transfers = <<>>

\* the deposit program has not been called; no account holds anything
DepositIdle ==
    /\ user_account = [lamports |-> <<0, 0, 0, 0, 0, 0, 0, 0>>,
                       owner |-> "system_program"]
    /\ deposit_account = [lamports |-> <<0, 0, 0, 0, 0, 0, 0, 0>>,
                          owner |-> "system_program"]
    /\ calls = <<>>

\* the balance checker has not started; its configuration is empty
BalanceIdle ==
    /\ rc_pc = "start"
    /\ rc_wallets = 0
    /\ rc_task = [w \in 1..MaxWallets |-> "unspawned"]
    /\ rc_joined = 0
    /\ rc_results = <<>>
    /\ rc_health = <<>>
    /\ rc_printed = <<>>
    /\ rc_clock = 0

OtherThanBroadcastIdle ==
    ParseIdle /\ StreamStart /\ DepositIdle /\ BalanceIdle

\* ----------------------------------------------------------------- domains
AllPairs == (1..MaxSenders) \X (1..MaxReceivers)

\* the cross product the nested loops of send_transactions walk through
Pairs == (1..Len(senders)) \X (1..Len(receivers))

NumPairs == Len(senders) * Len(receivers)

\* results the ledger can give to get_signature_status:
\*   "RpcErr"       Err(client error)
\*   "None"         Ok(None): signature not (yet) visible
\*   "SomeOk"       Ok(Some(Ok(()))): finalized successfully
\*   "SomeErr"      Ok(Some(Err(transaction error))): finalized with failure
StatusResults == {"RpcErr", "None", "SomeOk", "SomeErr"}

CallResults == {"Ok", "Err"}

\* ---------------------------------------------------------- pure functions
\* system_instruction::transfer(&sender.pubkey(), receiver, amount)
Transfer(from, to, amount) ==
    [program |-> "system", op |-> "transfer",
     from |-> from, to |-> to, lamports |-> amount]

\* Transaction::new_signed_with_payer(&[instruction], Some(payer), &[signer], hash)
NewSignedWithPayer(instructions, payer, signer, recent_blockhash) ==
    [instructions |-> instructions, payer |-> payer,
     signers |-> <<signer>>, recent_blockhash |-> recent_blockhash]

\* Keypair::from_bytes: the 64 bytes of a key hold the secret half and
\* the public half; key k is the key of wallet address <<"wallet", k>>
KeypairFromBytes(k) == [secret |-> k, public |-> <<"wallet", k>>]

\* Signer::pubkey
PubkeyOf(keypair) == keypair.public

\* the SenderWallet process_wallets builds from a config entry: the key
\* from private_key, the address from public_key, each parsed on its own
SenderWalletOf(private_key, public_key) ==
    [private_key |-> KeypairFromBytes(private_key), public_key |-> public_key]

\* the ReceiverWallet process_wallets builds from a config entry
ReceiverWalletOf(public_key) == [public_key |-> public_key]

\* the block reference get_latest_blockhash returns to the call made by
\* the task of pair u
BlockhashOf(u) == <<"blockhash", u[1], u[2]>>

\* send_sol(client, &sender.private_key, &receiver.public_key, LAMPORTS)
\* of the task of pair u, given the block reference it fetched
SendSolTransaction(u, recent_blockhash) ==
    LET sender == senders[u[1]].private_key
        receiver == receivers[u[2]].public_key
    IN NewSignedWithPayer(<<Transfer(PubkeyOf(sender), receiver, LAMPORTS)>>,
                          PubkeyOf(sender), sender, recent_blockhash)

\* the transaction send_sol builds for pair u
TransactionOf(u) == SendSolTransaction(u, BlockhashOf(u))

\* no transaction built yet
NoTransaction ==
    [instructions |-> <<>>, payer |-> <<>>, signers |-> <<>>,
     recent_blockhash |-> <<>>]

\* the signature send_and_confirm_transaction returns: the first signature
\* of the transaction it was given
SignatureOf(tx) ==
    [signer |-> tx.signers[1], message |-> <<tx.instructions, tx.recent_blockhash>>]

\* variant of check_transaction_status: `Some(_) => Ok(())`, the status
\* inside a visible signature is not looked at
CheckTransactionStatusIgnoresFailure(r) ==
    CASE r = "RpcErr"  -> "Err"
      [] r = "None"    -> "Ok"
      [] r = "SomeOk"  -> "Ok"
      [] r = "SomeErr" -> "Ok"

\* variant of check_transaction_status: a signature that is not visible is
\* an error
CheckTransactionStatusNoneIsErr(r) ==
    CASE r = "RpcErr"  -> "Err"
      [] r = "None"    -> "Err"
      [] r = "SomeOk"  -> "Ok"
      [] r = "SomeErr" -> "Err"

\* check_transaction_status: the Result it returns for a ledger answer
CheckTransactionStatus(r) ==
    CASE r = "RpcErr"  -> "Err"
      [] r = "None"    -> "Ok"
      [] r = "SomeOk"  -> "Ok"
      [] r = "SomeErr" -> "Err"

\* the lines check_transaction_status prints itself for a ledger answer
CheckTransactionStatusPrints(r) ==
    IF CheckTransactionStatus(r) = "Err"
    THEN <<[kind |-> "TransactionError"]>>
    ELSE <<>>

\* println!("Transaction Hash: {:?}, Time: {:?}", signature, duration)
TransactionHashLine(sig, dur) ==
    [kind |-> "TransactionHash", signature |-> sig, time |-> dur]

\* println!("Error sending from wallet {}: {:?}", sender.public_key, e)
SendErrorLine(u) ==
    [kind |-> "SendError", sender |-> senders[u[1]].public_key]

\* println!("Error sending from wallet {} to wallet {}: {:?}", ..)
StatusErrorLine(u, r) ==
    [kind |-> "StatusError", sender |-> senders[u[1]].public_key,
     receiver |-> receivers[u[2]].public_key, err |-> r]

\* -------------------------------------------------------------------- Init
\* send_transactions is entered: nothing spawned, no task has run
StartState ==
    /\ main_pc = "spawn"
    /\ exit_status = "running"
    /\ tasks = <<>>
    /\ joined = 0
    /\ pc = [u \in AllPairs |-> "unspawned"]
    /\ trace = [u \in AllPairs |-> <<>>]
    /\ printed = [u \in AllPairs |-> <<>>]
    /\ clock = [u \in AllPairs |-> 0]
    /\ start_time = [u \in AllPairs |-> -1]
    /\ duration = [u \in AllPairs |-> -1]
    /\ blockhash_res = [u \in AllPairs |-> "none"]
    /\ send_res = [u \in AllPairs |-> "none"]
    /\ status_res = [u \in AllPairs |-> "none"]
    /\ transaction = [u \in AllPairs |-> NoTransaction]

\* a config whose wallets carry the address of their own key
Init ==
    /\ \E s \in 0..MaxSenders, r \in 0..MaxReceivers :
          /\ s * r <= MaxUnits
          /\ senders = [i \in 1..s |-> SenderWalletOf(i, <<"wallet", i>>)]
          /\ receivers = [j \in 1..r |-> ReceiverWalletOf(<<"receiver", j>>)]
    /\ delay \in [{"blockhash", "send", "status"} -> 1..MaxDelay]
    /\ StartState
    /\ OtherThanBroadcastIdle

\* any config: process_wallets parses public_key and private_key of a
\* wallet independently, so the address of a sender may be the address of
\* its key or any other address
InitWallets ==
    /\ \E s \in 0..MaxSenders, r \in 0..MaxReceivers :
          /\ s * r <= MaxUnits
          /\ \E address \in [1..s -> 1..(s + 1)] :
                senders = [i \in 1..s |->
                              SenderWalletOf(i, <<"wallet", address[i]>>)]
          /\ receivers = [j \in 1..r |-> ReceiverWalletOf(<<"receiver", j>>)]
    /\ delay = [c \in {"blockhash", "send", "status"} |-> 1]
    /\ StartState
    /\ OtherThanBroadcastIdle

\* --------------------------------------------------- send_transactions
\* the pair the nested loops reach after n pushes: senders outer, receivers inner
NextPair(n) == <<(n \div Len(receivers)) + 1, (n % Len(receivers)) + 1>>

\* one iteration of the inner loop: tokio::spawn(..) and tasks.push(task)
SpawnTask ==
    /\ main_pc = "spawn"
    /\ Len(tasks) < NumPairs
    /\ LET u == NextPair(Len(tasks)) IN
          /\ tasks' = Append(tasks, u)
          /\ pc' = [pc EXCEPT ![u] = "spawned"]
    /\ UNCHANGED <<main_pc, exit_status, joined, configVars, otherThanBroadcast,
                   transaction, trace, printed,
                   clock, start_time, duration, blockhash_res, send_res,
                   status_res>>

\* both loops are exhausted: control reaches the join loop
SpawnDone ==
    /\ main_pc = "spawn"
    /\ Len(tasks) = NumPairs
    /\ main_pc' = "join"
    /\ UNCHANGED <<exit_status, tasks, joined, configVars, otherThanBroadcast,
                   taskVars>>

Finished(u) == pc[u] \in {"returned", "panicked"}

\* variant of the join loop: `task.await?`, the JoinError of a panicked
\* task ends send_transactions at once and the runtime, shut down when
\* main ends, drops the tasks that have not finished
AwaitTaskAbort ==
    /\ main_pc = "join"
    /\ joined < Len(tasks)
    /\ Finished(tasks[joined + 1])
    /\ joined' = joined + 1
    /\ IF pc[tasks[joined + 1]] = "panicked"
       THEN /\ main_pc' = "done"
            /\ exit_status' = "ok"
            /\ pc' = [u \in AllPairs |->
                        IF pc[u] \in {"unspawned", "returned", "panicked"}
                        THEN pc[u] ELSE "cancelled"]
       ELSE UNCHANGED <<main_pc, exit_status, pc>>
    /\ UNCHANGED <<tasks, configVars, otherThanBroadcast,
                   transaction, trace, printed, clock, start_time,
                   duration, blockhash_res, send_res, status_res>>

\* variant of the join loop: the handle is dropped instead of awaited, so
\* the loop goes on whether or not the task has finished
AwaitTaskNoWait ==
    /\ main_pc = "join"
    /\ joined < Len(tasks)
    /\ joined' = joined + 1
    /\ UNCHANGED <<main_pc, exit_status, tasks, configVars, otherThanBroadcast,
                   taskVars>>

\* let _ = task.await: completes when the task has returned or panicked;
\* the JoinError of a panicked task is discarded
AwaitTask ==
    /\ main_pc = "join"
    /\ joined < Len(tasks)
    /\ Finished(tasks[joined + 1])
    /\ joined' = joined + 1
    /\ UNCHANGED <<main_pc, exit_status, tasks, configVars, otherThanBroadcast,
                   taskVars>>

\* the join loop is exhausted: send_transactions returns and main ends
Return ==
    /\ main_pc = "join"
    /\ joined = Len(tasks)
    /\ main_pc' = "done"
    /\ exit_status' = "ok"
    /\ UNCHANGED <<tasks, joined, configVars, otherThanBroadcast,
                   taskVars>>

\* ------------------------------------------------------------ the task
\* the task is first polled: Instant::now(), then send_sol builds the
\* instruction and calls get_latest_blockhash
TaskStart(u) ==
    /\ pc[u] = "spawned"
    /\ start_time' = [start_time EXCEPT ![u] = clock[u]]
    /\ trace' = [trace EXCEPT ![u] = @ \o <<"Instant::now", "transfer",
                                             "get_latest_blockhash">>]
    /\ pc' = [pc EXCEPT ![u] = "get_latest_blockhash"]
    /\ UNCHANGED <<mainVars, configVars, otherThanBroadcast,
                   transaction, printed, clock, duration,
                   blockhash_res, send_res, status_res>>

\* variant of send_sol: the block reference is kept after the first fetch
\* of the batch and every later transaction is signed with the kept one
SendSolBlockhashCached(u, r) ==
    /\ pc[u] = "get_latest_blockhash"
    /\ blockhash_res' = [blockhash_res EXCEPT ![u] = r]
    /\ clock' = [clock EXCEPT ![u] = @ + delay["blockhash"]]
    /\ IF r = "Err"
       THEN /\ pc' = [pc EXCEPT ![u] = "panicked"]
            /\ trace' = [trace EXCEPT ![u] = Append(@, "panic")]
            /\ UNCHANGED transaction
       ELSE /\ pc' = [pc EXCEPT ![u] = "send_and_confirm_transaction"]
            /\ transaction' = [transaction EXCEPT ![u] =
                                  SendSolTransaction(u, BlockhashOf(tasks[1]))]
            /\ trace' = [trace EXCEPT ![u] = @ \o <<"new_signed_with_payer",
                                       "send_and_confirm_transaction">>]
    /\ UNCHANGED <<mainVars, configVars, otherThanBroadcast,
                   printed, start_time, duration,
                   send_res, status_res>>

\* get_latest_blockhash returns r; .expect panics on Err, otherwise the
\* transaction is signed and send_and_confirm_transaction is called
SendSolBlockhash(u, r) ==
    /\ pc[u] = "get_latest_blockhash"
    /\ blockhash_res' = [blockhash_res EXCEPT ![u] = r]
    /\ clock' = [clock EXCEPT ![u] = @ + delay["blockhash"]]
    /\ IF r = "Err"
       THEN /\ pc' = [pc EXCEPT ![u] = "panicked"]
            /\ trace' = [trace EXCEPT ![u] = Append(@, "panic")]
            /\ UNCHANGED transaction
       ELSE /\ pc' = [pc EXCEPT ![u] = "send_and_confirm_transaction"]
            /\ transaction' = [transaction EXCEPT ![u] =
                                  SendSolTransaction(u, BlockhashOf(u))]
            /\ trace' = [trace EXCEPT ![u] = @ \o <<"new_signed_with_payer",
                                       "send_and_confirm_transaction">>]
    /\ UNCHANGED <<mainVars, configVars, otherThanBroadcast,
                   printed, start_time, duration,
                   send_res, status_res>>

\* variant of the task: the Err arm prints its line and does not return,
\* so the status check runs after a failed submission too
TaskSendResultNoReturn(u, r) ==
    /\ pc[u] = "send_and_confirm_transaction"
    /\ send_res' = [send_res EXCEPT ![u] = r]
    /\ clock' = [clock EXCEPT ![u] = @ + delay["send"]]
    /\ IF r = "Err"
       THEN /\ printed' = [printed EXCEPT ![u] = Append(@, SendErrorLine(u))]
            /\ trace' = [trace EXCEPT ![u] = Append(@, "get_signature_status")]
            /\ pc' = [pc EXCEPT ![u] = "get_signature_status"]
            /\ UNCHANGED duration
       ELSE /\ duration' = [duration EXCEPT ![u] = clock'[u] - start_time[u]]
            /\ printed' = [printed EXCEPT ![u] =
                  Append(@, TransactionHashLine(SignatureOf(transaction[u]),
                                                duration'[u]))]
            /\ trace' = [trace EXCEPT ![u] = @ \o <<"elapsed",
                                                     "get_signature_status">>]
            /\ pc' = [pc EXCEPT ![u] = "get_signature_status"]
    /\ UNCHANGED <<mainVars, configVars, otherThanBroadcast,
                   transaction, start_time, blockhash_res, status_res>>

\* variant of the task: a failed submission is submitted a second time
TaskSendResultRetry(u, r) ==
    /\ pc[u] = "send_and_confirm_transaction"
    /\ send_res' = [send_res EXCEPT ![u] = r]
    /\ clock' = [clock EXCEPT ![u] = @ + delay["send"]]
    /\ IF r = "Err"
       THEN IF Len(SelectSeq(trace[u],
                   LAMBDA e : e = "send_and_confirm_transaction")) < 2
            THEN /\ trace' = [trace EXCEPT ![u] =
                                 Append(@, "send_and_confirm_transaction")]
                 /\ UNCHANGED <<printed, pc, duration>>
            ELSE /\ printed' = [printed EXCEPT ![u] = Append(@, SendErrorLine(u))]
                 /\ pc' = [pc EXCEPT ![u] = "returned"]
                 /\ UNCHANGED <<duration, trace>>
       ELSE /\ duration' = [duration EXCEPT ![u] = clock'[u] - start_time[u]]
            /\ printed' = [printed EXCEPT ![u] =
                  Append(@, TransactionHashLine(SignatureOf(transaction[u]),
                                                duration'[u]))]
            /\ trace' = [trace EXCEPT ![u] = @ \o <<"elapsed",
                                                     "get_signature_status">>]
            /\ pc' = [pc EXCEPT ![u] = "get_signature_status"]
    /\ UNCHANGED <<mainVars, configVars, otherThanBroadcast,
                   transaction, start_time, blockhash_res, status_res>>

\* send_and_confirm_transaction returns r.  Err: `?` returns it from
\* send_sol, the task prints the error line and returns.  Ok(signature):
\* the task takes start_time.elapsed(), prints the hash line and calls
\* check_transaction_status, which calls get_signature_status
TaskSendResult(u, r) ==
    /\ pc[u] = "send_and_confirm_transaction"
    /\ send_res' = [send_res EXCEPT ![u] = r]
    /\ clock' = [clock EXCEPT ![u] = @ + delay["send"]]
    /\ IF r = "Err"
       THEN /\ printed' = [printed EXCEPT ![u] = Append(@, SendErrorLine(u))]
            /\ pc' = [pc EXCEPT ![u] = "returned"]
            /\ UNCHANGED <<duration, trace>>
       ELSE /\ duration' = [duration EXCEPT ![u] = clock'[u] - start_time[u]]
            /\ printed' = [printed EXCEPT ![u] =
                  Append(@, TransactionHashLine(SignatureOf(transaction[u]),
                                                duration'[u]))]
            /\ trace' = [trace EXCEPT ![u] = @ \o <<"elapsed",
                                                     "get_signature_status">>]
            /\ pc' = [pc EXCEPT ![u] = "get_signature_status"]
    /\ UNCHANGED <<mainVars, configVars, otherThanBroadcast,
                   transaction, start_time, blockhash_res, status_res>>

\* variant of the task: the status check waits for finalization, a
\* signature that is not visible is polled a second time
TaskStatusResultRepoll(u, r) ==
    /\ pc[u] = "get_signature_status"
    /\ status_res' = [status_res EXCEPT ![u] = r]
    /\ clock' = [clock EXCEPT ![u] = @ + delay["status"]]
    /\ IF r = "None" /\ Len(SelectSeq(trace[u],
                              LAMBDA e : e = "get_signature_status")) < 2
       THEN /\ trace' = [trace EXCEPT ![u] = Append(@, "get_signature_status")]
            /\ UNCHANGED <<printed, pc>>
       ELSE /\ printed' = [printed EXCEPT ![u] =
                  @ \o CheckTransactionStatusPrints(r)
                    \o (IF CheckTransactionStatus(r) = "Err"
                        THEN <<StatusErrorLine(u, r)>> ELSE <<>>)]
            /\ pc' = [pc EXCEPT ![u] = "returned"]
            /\ UNCHANGED trace
    /\ UNCHANGED <<mainVars, configVars, otherThanBroadcast,
                   transaction, start_time, duration,
                   blockhash_res, send_res>>

\* variant of the task: the elapsed time is taken when the status check
\* has returned
TaskStatusResultTimed(u, r) ==
    /\ pc[u] = "get_signature_status"
    /\ status_res' = [status_res EXCEPT ![u] = r]
    /\ clock' = [clock EXCEPT ![u] = @ + delay["status"]]
    /\ duration' = [duration EXCEPT ![u] = clock'[u] - start_time[u]]
    /\ printed' = [printed EXCEPT ![u] =
          @ \o CheckTransactionStatusPrints(r)
            \o (IF CheckTransactionStatus(r) = "Err"
                THEN <<StatusErrorLine(u, r)>> ELSE <<>>)]
    /\ pc' = [pc EXCEPT ![u] = "returned"]
    /\ UNCHANGED <<mainVars, configVars, otherThanBroadcast,
                   transaction, trace, start_time,
                   blockhash_res, send_res>>

\* get_signature_status returns r; check_transaction_status maps it to a
\* Result (printing on Err); on Err the task prints its error line; in
\* either case the task returns Ok(())
TaskStatusResult(u, r) ==
    /\ pc[u] = "get_signature_status"
    /\ status_res' = [status_res EXCEPT ![u] = r]
    /\ clock' = [clock EXCEPT ![u] = @ + delay["status"]]
    /\ printed' = [printed EXCEPT ![u] =
          @ \o CheckTransactionStatusPrints(r)
            \o (IF CheckTransactionStatus(r) = "Err"
                THEN <<StatusErrorLine(u, r)>> ELSE <<>>)]
    /\ pc' = [pc EXCEPT ![u] = "returned"]
    /\ UNCHANGED <<mainVars, configVars, otherThanBroadcast,
                   transaction, trace, start_time, duration,
                   blockhash_res, send_res>>

\* ---------------------------------------------------------- specification
Next ==
    \/ SpawnTask
    \/ SpawnDone
    \/ AwaitTask
    \/ Return
    \/ \E u \in Pairs : TaskStart(u)
    \/ \E u \in Pairs, r \in CallResults : SendSolBlockhash(u, r)
    \/ \E u \in Pairs, r \in CallResults : TaskSendResult(u, r)
    \/ \E u \in Pairs, r \in StatusResults : TaskStatusResult(u, r)

Spec == Init /\ [][Next]_vars

\* the scheduling of the runtime: main and every spawned task keep being
\* run, and every ledger call returns
Fairness ==
    /\ WF_vars(SpawnTask)
    /\ WF_vars(SpawnDone)
    /\ WF_vars(AwaitTask)
    /\ WF_vars(Return)
    /\ \A u \in AllPairs :
          /\ WF_vars(TaskStart(u))
          /\ WF_vars(\E r \in CallResults : SendSolBlockhash(u, r))
          /\ WF_vars(\E r \in CallResults : TaskSendResult(u, r))
          /\ WF_vars(\E r \in StatusResults : TaskStatusResult(u, r))

SpecFair == Spec /\ Fairness

SpecWallets == InitWallets /\ [][Next]_vars

\* ================================================ parse_bytes_from_string
\* (solana-rpc-transactions/src/main.rs and task-3/src/solana.rs hold the
\* same function.)  A string is a sequence of one-character strings.

\* the characters the checked inputs are made of
Chars == {"[", "]", ",", " ", "+", "2", "5", "6"}

DigitChars == <<"0", "1", "2", "3", "4", "5", "6", "7", "8", "9">>

IsDigit(c) == \E i \in 1..Len(DigitChars) : DigitChars[i] = c

DigitValue(c) == (CHOOSE i \in 1..Len(DigitChars) : DigitChars[i] = c) - 1

\* str::trim_matches(['[', ']']): every leading and every trailing
\* character of the set is removed
RECURSIVE TrimStartMatches(_, _)
TrimStartMatches(str, set) ==
    IF str # <<>> /\ str[1] \in set
    THEN TrimStartMatches(Tail(str), set)
    ELSE str

RECURSIVE TrimEndMatches(_, _)
TrimEndMatches(str, set) ==
    IF str # <<>> /\ str[Len(str)] \in set
    THEN TrimEndMatches(SubSeq(str, 1, Len(str) - 1), set)
    ELSE str

TrimMatches(str, set) == TrimEndMatches(TrimStartMatches(str, set), set)

\* str::trim: leading and trailing white space is removed
Trim(str) == TrimMatches(str, {" "})

\* str::split(','): the pieces between the separators, empty pieces
\* included; the empty string gives one empty piece
RECURSIVE Split(_, _)
Split(str, sep) ==
    IF \E i \in 1..Len(str) : str[i] = sep
    THEN LET i == CHOOSE k \in 1..Len(str) :
                     str[k] = sep /\ \A j \in 1..(k - 1) : str[j] # sep
         IN <<SubSeq(str, 1, i - 1)>>
               \o Split(SubSeq(str, i + 1, Len(str)), sep)
    ELSE <<str>>

\* the digits of str read as a decimal number
RECURSIVE Decimal(_)
Decimal(str) ==
    IF str = <<>> THEN 0
    ELSE Decimal(SubSeq(str, 1, Len(str) - 1)) * 10
            + DigitValue(str[Len(str)])

U16Max == 65535

\* str::parse::<u16>: an optional "+", then at least one digit, digits
\* only, and a value that fits 16 bits
ParseU16(str) ==
    LET digits == IF str # <<>> /\ str[1] = "+" THEN Tail(str) ELSE str
    IN IF str = <<>> THEN [ok |-> FALSE, num |-> 0, err |-> "Empty"]
       ELSE IF digits = <<>> \/ \E i \in 1..Len(digits) : ~IsDigit(digits[i])
       THEN [ok |-> FALSE, num |-> 0, err |-> "InvalidDigit"]
       ELSE IF Decimal(digits) > U16Max
       THEN [ok |-> FALSE, num |-> 0, err |-> "PosOverflow"]
       ELSE [ok |-> TRUE, num |-> Decimal(digits), err |-> ""]

\* variant of the closure: `num as u8` without the range check
ParseEntryTruncating(str) ==
    LET r == ParseU16(Trim(str))
    IN IF ~r.ok THEN [ok |-> FALSE, byte |-> 0]
       ELSE [ok |-> TRUE, byte |-> r.num % 256]

\* the closure mapped over the pieces: trim, parse::<u16>, range check
ParseEntry(str) ==
    LET r == ParseU16(Trim(str))
    IN IF ~r.ok THEN [ok |-> FALSE, byte |-> 0]
       ELSE IF r.num > 255 THEN [ok |-> FALSE, byte |-> 0]
       ELSE [ok |-> TRUE, byte |-> r.num]

\* parse_bytes_from_string: collect() gives the bytes when every piece is
\* Ok and the first Err otherwise
ParseBytesFromString(str) ==
    LET pieces == Split(TrimMatches(str, {"[", "]"}), ",")
        results == [i \in 1..Len(pieces) |-> ParseEntry(pieces[i])]
    IN IF \A i \in 1..Len(results) : results[i].ok
       THEN [done |-> TRUE, ok |-> TRUE,
             bytes |-> [i \in 1..Len(results) |-> results[i].byte]]
       ELSE [done |-> TRUE, ok |-> FALSE, bytes |-> <<>>]

\* send_transactions has not been entered
BroadcastIdle ==
    /\ senders = <<>>
    /\ receivers = <<>>
    /\ delay = [c \in {"blockhash", "send", "status"} |-> 1]
    /\ StartState

InitParse ==
    /\ input \in UNION {[1..n -> Chars] : n \in 0..MaxStrLen}
    /\ parsed = [done |-> FALSE, ok |-> FALSE, bytes |-> <<>>]
    /\ BroadcastIdle
    /\ StreamStart
    /\ DepositIdle
    /\ BalanceIdle

otherThanParse == <<broadcastVars, streamVars, depositVars, balanceVars>>

\* the call parse_bytes_from_string(&input)
ParseCall ==
    /\ ~parsed.done
    /\ parsed' = ParseBytesFromString(input)
    /\ UNCHANGED <<input, otherThanParse>>

NextParse == ParseCall

SpecParse == InitParse /\ [][NextParse]_vars

\* ==================================================== task-3: streaming
\* One sender task receives a message per block update over a bounded
\* channel and runs send_sol and check_transaction_status for the single
\* configured pair; main's loop spawns a trigger task per update.

otherThanStream == <<broadcastVars, parseVars, depositVars, balanceVars>>

\* positions of a transfer that is still running
InProgress == {"blockhash", "send", "status"}

\* the transfers that are running
Running == {n \in 1..Len(transfers) : transfers[n] \in InProgress}

\* the sender task is over and has dropped the receiving end
RxDropped == sender_pc \in {"returned", "panicked", "closed"}

InitStream ==
    /\ StreamStart
    /\ BroadcastIdle
    /\ ParseIdle
    /\ DepositIdle
    /\ BalanceIdle

\* the sender task decodes the configured key; both expect() calls panic
\* on a key that does not decode
SenderSetup(ok) ==
    /\ sender_pc = "setup"
    /\ sender_pc' = IF ok THEN "recv" ELSE "panicked"
    /\ UNCHANGED <<stream_pc, updates, pending, chan, transfers,
                   otherThanStream>>

\* stream.next() gives Ok(data): a trigger task is spawned
StreamUpdate ==
    /\ stream_pc = "subscribed"
    /\ updates < MaxUpdates
    /\ updates' = updates + 1
    /\ pending' = pending + 1
    /\ UNCHANGED <<stream_pc, chan, sender_pc, transfers, otherThanStream>>

\* stream.next() gives Err or None: the loop ends and main returns
StreamEnd ==
    /\ stream_pc = "subscribed"
    /\ stream_pc' = "ended"
    /\ UNCHANGED <<updates, pending, chan, sender_pc, transfers,
                   otherThanStream>>

\* a trigger task's tx_ref.send("").await: waits while the channel is
\* full, fails (unnoticed) once the receiving end is dropped
TriggerSend ==
    /\ pending > 0
    /\ IF RxDropped
       THEN chan' = chan
       ELSE chan < ChannelCapacity /\ chan' = chan + 1
    /\ pending' = pending - 1
    /\ UNCHANGED <<stream_pc, updates, sender_pc, transfers,
                   otherThanStream>>

\* variant: every message is handled by a task of its own
SenderRecvSpawning ==
    /\ sender_pc = "recv"
    /\ chan > 0
    /\ chan' = chan - 1
    /\ transfers' = Append(transfers, "blockhash")
    /\ UNCHANGED <<stream_pc, updates, pending, sender_pc, otherThanStream>>

\* rx.recv().await gives Some(_): the task starts a transfer
SenderRecv ==
    /\ sender_pc = "recv"
    /\ chan > 0
    /\ chan' = chan - 1
    /\ transfers' = Append(transfers, "blockhash")
    /\ sender_pc' = "busy"
    /\ UNCHANGED <<stream_pc, updates, pending, otherThanStream>>

\* rx.recv().await gives None: every sending end is gone
SenderClosed ==
    /\ sender_pc = "recv"
    /\ stream_pc = "ended"
    /\ pending = 0
    /\ chan = 0
    /\ sender_pc' = "closed"
    /\ UNCHANGED <<stream_pc, updates, pending, chan, transfers,
                   otherThanStream>>

\* send_sol, get_latest_blockhash: Err panics the sender task
StreamBlockhash(n, r) ==
    /\ n \in Running
    /\ transfers[n] = "blockhash"
    /\ IF r = "Ok"
       THEN /\ transfers' = [transfers EXCEPT ![n] = "send"]
            /\ UNCHANGED <<sender_pc, chan>>
       ELSE /\ transfers' = [transfers EXCEPT ![n] = "panicked"]
            /\ sender_pc' = "panicked"
            /\ chan' = 0
    /\ UNCHANGED <<stream_pc, updates, pending, otherThanStream>>

\* variant: a failed submission is skipped and the task receives again
StreamSendResultSkip(n, r) ==
    /\ n \in Running
    /\ transfers[n] = "send"
    /\ IF r = "Ok"
       THEN /\ transfers' = [transfers EXCEPT ![n] = "status"]
            /\ UNCHANGED sender_pc
       ELSE /\ transfers' = [transfers EXCEPT ![n] = "send_failed"]
            /\ sender_pc' = "recv"
    /\ UNCHANGED <<stream_pc, updates, pending, chan, otherThanStream>>

\* send_sol, send_and_confirm_transaction: Err ends the sender task
StreamSendResult(n, r) ==
    /\ n \in Running
    /\ transfers[n] = "send"
    /\ IF r = "Ok"
       THEN /\ transfers' = [transfers EXCEPT ![n] = "status"]
            /\ UNCHANGED <<sender_pc, chan>>
       ELSE /\ transfers' = [transfers EXCEPT ![n] = "send_failed"]
            /\ sender_pc' = "returned"
            /\ chan' = 0
    /\ UNCHANGED <<stream_pc, updates, pending, otherThanStream>>

\* check_transaction_status: Ok goes back to recv, Err ends the task
StreamStatusResult(n, r) ==
    /\ n \in Running
    /\ transfers[n] = "status"
    /\ IF CheckTransactionStatus(r) = "Ok"
       THEN /\ transfers' = [transfers EXCEPT ![n] = "polled"]
            /\ sender_pc' = "recv"
            /\ UNCHANGED chan
       ELSE /\ transfers' = [transfers EXCEPT ![n] = "poll_failed"]
            /\ sender_pc' = "returned"
            /\ chan' = 0
    /\ UNCHANGED <<stream_pc, updates, pending, otherThanStream>>

NextStream ==
    \/ \E ok \in BOOLEAN : SenderSetup(ok)
    \/ StreamUpdate
    \/ StreamEnd
    \/ TriggerSend
    \/ SenderRecv
    \/ SenderClosed
    \/ \E n \in 1..Len(transfers) :
          \/ \E r \in CallResults : StreamBlockhash(n, r)
          \/ \E r \in CallResults : StreamSendResult(n, r)
          \/ \E r \in StatusResults : StreamStatusResult(n, r)

SpecStream == InitStream /\ [][NextStream]_vars

\* ================================== solana-smart-contracts: deposit program
\* A u64 is held as its 8 little-endian bytes, so that sums and differences
\* have the width of the program's.

otherThanDeposit == <<broadcastVars, parseVars, streamVars, balanceVars>>

\* u64::to_le_bytes of a number, the first n bytes
RECURSIVE ToLeBytes(_, _)
ToLeBytes(v, n) ==
    IF n = 0 THEN <<>> ELSE <<v % 256>> \o ToLeBytes(v \div 256, n - 1)

U64(v) == ToLeBytes(v, 8)

U64Max == [i \in 1..8 |-> 255]

\* a < b on u64
LtU64(a, b) ==
    \E i \in 1..8 : a[i] < b[i] /\ \A j \in (i + 1)..8 : a[j] = b[j]

\* a + b byte by byte; the last element of the result is the carry out
RECURSIVE AddWithCarry(_, _, _)
AddWithCarry(a, b, carry) ==
    IF a = <<>> THEN <<carry>>
    ELSE LET sum == a[1] + b[1] + carry
         IN <<sum % 256>> \o AddWithCarry(Tail(a), Tail(b), sum \div 256)

WrappingAdd(a, b) == SubSeq(AddWithCarry(a, b, 0), 1, 8)

AddOverflows(a, b) == AddWithCarry(a, b, 0)[9] = 1

\* a - b byte by byte; the last element of the result is the borrow out
RECURSIVE SubWithBorrow(_, _, _)
SubWithBorrow(a, b, borrow) ==
    IF a = <<>> THEN <<borrow>>
    ELSE LET diff == a[1] - b[1] - borrow
         IN <<diff % 256>>
               \o SubWithBorrow(Tail(a), Tail(b), IF diff < 0 THEN 1 ELSE 0)

WrappingSub(a, b) == SubSeq(SubWithBorrow(a, b, 0), 1, 8)

SubOverflows(a, b) == SubWithBorrow(a, b, 0)[9] = 1

\* enum DepositInstruction; amount is <<>> for a variant without a field
ProcessCreateDeposit == [variant |-> "ProcessCreateDeposit", amount |-> <<>>]

ProcessDepositTranfer(amount) ==
    [variant |-> "ProcessDepositTranfer", amount |-> amount]

ProcessWithdraw(amount) == [variant |-> "ProcessWithdraw", amount |-> amount]

ProcessBalance == [variant |-> "ProcessBalance", amount |-> <<>>]

\* the variants in the order of their declaration
Variants == <<"ProcessCreateDeposit", "ProcessDepositTranfer",
              "ProcessWithdraw", "ProcessBalance">>

\* #[derive(BorshSerialize)]: the index of the variant in one byte, then
\* the fields, a u64 as its 8 little-endian bytes
BorshEncode(ins) ==
    LET index == (CHOOSE i \in 1..Len(Variants) : Variants[i] = ins.variant) - 1
    IN <<index>> \o ins.amount

InvalidInstructionData ==
    [ok |-> FALSE, ins |-> [variant |-> "none", amount |-> <<>>]]

\* variant: a payload of the wrong length is cut or filled up to 8 bytes
UnpackAnyLength(data) ==
    IF data = <<>> THEN InvalidInstructionData
    ELSE LET variant == data[1]
             rest == [i \in 1..8 |->
                        IF i < Len(data) THEN data[i + 1] ELSE 0]
         IN CASE variant = 0 -> [ok |-> TRUE, ins |-> ProcessCreateDeposit]
              [] variant = 1 -> [ok |-> TRUE, ins |-> ProcessWithdraw(rest)]
              [] variant = 2 -> [ok |-> TRUE, ins |-> ProcessBalance]
              [] variant = 3 ->
                    [ok |-> TRUE, ins |-> ProcessDepositTranfer(rest)]
              [] OTHER -> InvalidInstructionData

\* DepositInstruction::unpack
Unpack(data) ==
    IF data = <<>> THEN InvalidInstructionData
    ELSE LET variant == data[1]
             rest == Tail(data)
         IN CASE variant = 0 -> [ok |-> TRUE, ins |-> ProcessCreateDeposit]
              [] variant = 1 ->
                    IF Len(rest) = 8
                    THEN [ok |-> TRUE, ins |-> ProcessWithdraw(rest)]
                    ELSE InvalidInstructionData
              [] variant = 2 -> [ok |-> TRUE, ins |-> ProcessBalance]
              [] variant = 3 ->
                    IF Len(rest) = 8
                    THEN [ok |-> TRUE, ins |-> ProcessDepositTranfer(rest)]
                    ELSE InvalidInstructionData
              [] OTHER -> InvalidInstructionData

\* the program's id, and the owner of an account nobody has assigned
ProgramId == "program_id"

SystemProgram == "system_program"

\* what a handler leaves behind: its result and the two accounts
Outcome(result, user, deposit) ==
    [result |-> result, user |-> user, deposit |-> deposit]

\* system_instruction::create_account run through invoke: both accounts
\* must sign, the new one must be unused, the funding one must hold the
\* lamports; then the lamports move and the new account is assigned to owner
CreateAccount(from, to, lamports, owner, from_signer, to_signer) ==
    IF ~from_signer \/ ~to_signer THEN Outcome("PrivilegeEscalation", from, to)
    ELSE IF to.lamports # U64(0) \/ to.owner # SystemProgram
    THEN Outcome("AccountAlreadyInUse", from, to)
    ELSE IF LtU64(from.lamports, lamports)
    THEN Outcome("ResultWithNegativeLamports", from, to)
    ELSE Outcome("Ok",
                 [from EXCEPT !.lamports = WrappingSub(@, lamports)],
                 [lamports |-> lamports, owner |-> owner])

\* variant: the handler leaves the signature check to the system program
process_create_deposit_unchecked(user, deposit, user_signer, deposit_signer) ==
    {CreateAccount(user, deposit, U64(RentExemptMinimum), ProgramId,
                   user_signer, deposit_signer)}

\* process_create_deposit: the outcomes the call can have
process_create_deposit(user, deposit, user_signer, deposit_signer) ==
    IF ~user_signer
    THEN {Outcome("MissingRequiredSignature", user, deposit)}
    ELSE {CreateAccount(user, deposit, U64(RentExemptMinimum), ProgramId,
                        user_signer, deposit_signer)}

\* process_balance
process_balance(user, deposit) ==
    IF deposit.owner # ProgramId
    THEN {Outcome("IncorrectProgramId", user, deposit)}
    ELSE {Outcome("Ok", user, deposit)}

\* `*to += lamports` after `*from -= lamports`: a sum past u64::MAX
\* panics in a build with overflow checks and wraps in one without
MoveLamports(from, to, lamports) ==
    LET debited == [from EXCEPT !.lamports = WrappingSub(@, lamports)]
        credited == [to EXCEPT !.lamports = WrappingAdd(@, lamports)]
    IN IF AddOverflows(to.lamports, lamports)
       THEN {[result |-> "Panic", from |-> from, to |-> to],
             [result |-> "Ok", from |-> debited, to |-> credited]}
       ELSE {[result |-> "Ok", from |-> debited, to |-> credited]}

\* process_deposit
process_deposit(user, deposit, user_signer, lamports) ==
    IF ~user_signer
    THEN {Outcome("MissingRequiredSignature", user, deposit)}
    ELSE IF deposit.owner # ProgramId
    THEN {Outcome("IncorrectProgramId", user, deposit)}
    ELSE IF LtU64(user.lamports, lamports)
    THEN {Outcome("InsufficientFunds", user, deposit)}
    ELSE {Outcome(m.result, m.from, m.to) :
             m \in MoveLamports(user, deposit, lamports)}

\* variant: the balance is looked at before the owner
process_withdraw_funds_first(user, deposit, user_signer, lamports) ==
    IF ~user_signer
    THEN {Outcome("MissingRequiredSignature", user, deposit)}
    ELSE IF LtU64(deposit.lamports, lamports)
    THEN {Outcome("InsufficientFunds", user, deposit)}
    ELSE IF deposit.owner # ProgramId
    THEN {Outcome("IncorrectProgramId", user, deposit)}
    ELSE {Outcome(m.result, m.to, m.from) :
             m \in MoveLamports(deposit, user, lamports)}

\* process_withdraw
process_withdraw(user, deposit, user_signer, lamports) ==
    IF ~user_signer
    THEN {Outcome("MissingRequiredSignature", user, deposit)}
    ELSE IF deposit.owner # ProgramId
    THEN {Outcome("IncorrectProgramId", user, deposit)}
    ELSE IF LtU64(deposit.lamports, lamports)
    THEN {Outcome("InsufficientFunds", user, deposit)}
    ELSE {Outcome(m.result, m.to, m.from) :
             m \in MoveLamports(deposit, user, lamports)}

\* the handler process_instruction runs for an unpacked instruction
HandlerOf(ins) ==
    CASE ins.variant = "ProcessCreateDeposit" -> "process_create_deposit"
      [] ins.variant = "ProcessWithdraw" -> "process_withdraw"
      [] ins.variant = "ProcessDepositTranfer" -> "process_deposit"
      [] ins.variant = "ProcessBalance" -> "process_balance"
      [] OTHER -> "none"

\* process_instruction: unpack, then the handler of the variant
process_instruction(user, deposit, user_signer, deposit_signer, data) ==
    LET unpacked == Unpack(data)
        ins == unpacked.ins
    IN IF ~unpacked.ok
       THEN {Outcome("InvalidInstructionData", user, deposit)}
       ELSE CASE ins.variant = "ProcessCreateDeposit" ->
                   process_create_deposit(user, deposit, user_signer,
                                          deposit_signer)
              [] ins.variant = "ProcessWithdraw" ->
                   process_withdraw(user, deposit, user_signer, ins.amount)
              [] ins.variant = "ProcessDepositTranfer" ->
                   process_deposit(user, deposit, user_signer, ins.amount)
              [] ins.variant = "ProcessBalance" ->
                   process_balance(user, deposit)

\* the amounts instructions are built with
Amounts == {U64(100000), U64(1000000)}

\* the instructions a client builds
Instructions ==
    {ProcessCreateDeposit, ProcessBalance}
        \cup {ProcessDepositTranfer(a) : a \in Amounts}
        \cup {ProcessWithdraw(a) : a \in Amounts}

\* instruction data that is not the Borsh encoding of an instruction
RawData == {<<>>, <<4>>, <<3>> \o U64(100000)}

\* an instruction that was not built from a DepositInstruction
NotBuilt == [variant |-> "raw", amount |-> <<>>]

InitDeposit ==
    /\ user_account \in
          {[lamports |-> l, owner |-> SystemProgram] :
              l \in {U64(500000), U64(10000000)}}
    /\ deposit_account \in
          {[lamports |-> U64(0), owner |-> SystemProgram],
           [lamports |-> U64Max, owner |-> ProgramId],
           [lamports |-> U64(1000000), owner |-> "other_program"]}
    /\ calls = <<>>
    /\ BroadcastIdle
    /\ ParseIdle
    /\ StreamStart
    /\ BalanceIdle

\* one call of process_instruction with the two accounts; a failed
\* instruction leaves the accounts as they were
Call(sent, data, user_signer, deposit_signer) ==
    /\ \E out \in process_instruction(user_account, deposit_account,
                                      user_signer, deposit_signer, data) :
          /\ user_account' = out.user
          /\ deposit_account' = out.deposit
          /\ calls' = Append(calls,
                [sent |-> sent,
                 data |-> data,
                 user_signer |-> user_signer,
                 deposit_signer |-> deposit_signer,
                 handler |-> HandlerOf(Unpack(data).ins),
                 result |-> out.result,
                 before |-> [user |-> user_account,
                             deposit |-> deposit_account],
                 after |-> [user |-> out.user, deposit |-> out.deposit]])
    /\ UNCHANGED otherThanDeposit

\* a call in a sequence of calls on the same two accounts
Process(sent, data, user_signer, deposit_signer) ==
    /\ Len(calls) < MaxCalls
    /\ Call(sent, data, user_signer, deposit_signer)

\* Instruction::new_with_borsh(program_id, &instruction, accounts)
Submit(ins, user_signer, deposit_signer) ==
    Process(ins, BorshEncode(ins), user_signer, deposit_signer)

\* instruction_data is whatever bytes the caller sends
SubmitRaw(data, user_signer, deposit_signer) ==
    Process(NotBuilt, data, user_signer, deposit_signer)

\* the signers of the transaction: both, the user only, neither
Signers == {<<TRUE, TRUE>>, <<TRUE, FALSE>>, <<FALSE, FALSE>>}

NextDeposit ==
    \/ \E ins \in Instructions, sg \in Signers : Submit(ins, sg[1], sg[2])
    \/ \E data \in RawData, sg \in Signers : SubmitRaw(data, sg[1], sg[2])

SpecDeposit == InitDeposit /\ [][NextDeposit]_vars

\* ------------------------- process_instruction on any accounts, any data
\* instruction data of every shape unpack tells apart: the encodings of
\* the instructions, no data, unknown tags, payloads too short and too
\* long, and bytes after a tag that takes none
InstructionData ==
    {BorshEncode(ins) : ins \in Instructions}
        \cup RawData
        \cup {<<255>>, <<1>>, <<1, 0>>, <<0, 7>>, <<2, 7>>,
              <<1>> \o U64(100000) \o <<0>>,
              <<3>> \o U64(100000) \o <<0>>,
              <<3>> \o U64(1000000)}

InitCall ==
    /\ user_account \in
          {[lamports |-> l, owner |-> SystemProgram] :
              l \in {U64(0), U64(100000), U64(10000000), U64Max}}
    /\ deposit_account \in
          {[lamports |-> l, owner |-> o] :
              l \in {U64(0), U64(100000), U64(RentExemptMinimum), U64Max},
              o \in {SystemProgram, ProgramId, "other_program"}}
    /\ calls = <<>>
    /\ BroadcastIdle
    /\ ParseIdle
    /\ StreamStart
    /\ BalanceIdle

\* process_instruction(program_id, accounts, instruction_data)
Invoke(data, user_signer, deposit_signer) ==
    /\ Len(calls) < MaxSingleCalls
    /\ Call(NotBuilt, data, user_signer, deposit_signer)

NextCall ==
    \E data \in InstructionData, user_signer \in BOOLEAN,
       deposit_signer \in BOOLEAN :
        Invoke(data, user_signer, deposit_signer)

SpecCall == InitCall /\ [][NextCall]_vars

\* ============================= solana-rpc-connect: the balance checker
\* main reads the wallets, fetches every balance in a task of its own,
\* then runs the health check loop and prints what it fetched.

otherThanBalance == <<broadcastVars, parseVars, streamVars, depositVars>>

\* what a get_balance task can end with: the balance, one of the three
\* errors get_balance returns, or a task that did not run to its end
BalanceResults == {"Balance", "SendError", "JsonError", "ParseError",
                   "JoinError"}

\* what the await of a health check task can give: Ok(Ok(true)),
\* Ok(Err(message)) when the request failed, Err(JoinError) when the task
\* did not run to its end
HealthResults == {"Ok(Ok)", "Ok(Err)", "Err(JoinError)"}

InitBalance ==
    /\ rc_pc = "start"
    /\ rc_wallets \in 0..MaxWallets
    /\ rc_task = [w \in 1..MaxWallets |-> "unspawned"]
    /\ rc_joined = 0
    /\ rc_results = <<>>
    /\ rc_health = <<>>
    /\ rc_printed = <<>>
    /\ rc_clock = 0
    /\ BroadcastIdle
    /\ ParseIdle
    /\ StreamStart
    /\ DepositIdle

\* main up to get_balances: both expect() calls panic on a config that
\* cannot be read; an empty wallet list ends the program
ReadConfig(ok) ==
    /\ rc_pc = "start"
    /\ IF ~ok
       THEN rc_pc' = "panicked" /\ UNCHANGED rc_printed
       ELSE IF rc_wallets = 0
       THEN /\ rc_pc' = "done"
            /\ rc_printed' = Append(rc_printed, <<"No wallets found">>)
       ELSE rc_pc' = "spawn" /\ UNCHANGED rc_printed
    /\ UNCHANGED <<rc_wallets, rc_task, rc_joined, rc_results, rc_health,
                   rc_clock, otherThanBalance>>

\* get_balances, first loop: the next wallet's task is spawned
SpawnBalance ==
    /\ rc_pc = "spawn"
    /\ LET w == CHOOSE x \in 1..rc_wallets :
                   /\ rc_task[x] = "unspawned"
                   /\ \A y \in 1..(x - 1) : rc_task[y] # "unspawned"
       IN /\ rc_task' = [rc_task EXCEPT ![w] = "running"]
          /\ rc_pc' = IF w = rc_wallets THEN "join" ELSE "spawn"
    /\ UNCHANGED <<rc_wallets, rc_joined, rc_results, rc_health,
                   rc_printed, rc_clock, otherThanBalance>>

\* the get_balance task of wallet w ends
BalanceResult(w, r) ==
    /\ w \in 1..rc_wallets
    /\ rc_task[w] = "running"
    /\ rc_task' = [rc_task EXCEPT ![w] = r]
    /\ UNCHANGED <<rc_pc, rc_wallets, rc_joined, rc_results, rc_health,
                   rc_printed, rc_clock, otherThanBalance>>

\* get_balances, second loop: the next task is awaited; its result is
\* pushed unless the await gives a JoinError
JoinBalance ==
    /\ rc_pc = "join"
    /\ rc_task[rc_joined + 1] \in BalanceResults
    /\ rc_joined' = rc_joined + 1
    /\ rc_results' =
          IF rc_task[rc_joined + 1] = "JoinError"
          THEN rc_results
          ELSE Append(rc_results, <<rc_joined + 1, rc_task[rc_joined + 1]>>)
    /\ rc_pc' = IF rc_joined + 1 = rc_wallets THEN "health" ELSE "join"
    /\ UNCHANGED <<rc_wallets, rc_task, rc_health, rc_printed, rc_clock,
                   otherThanBalance>>

\* one turn of the loop: the health check task is spawned and awaited;
\* `if let Ok(_) = healt_check_req.await` looks at the JoinHandle's Result
HealthCheck(r) ==
    /\ rc_pc = "health"
    /\ Len(rc_health) < MaxAttempts
    /\ rc_health' = Append(rc_health, r)
    /\ IF r \in {"Ok(Ok)", "Ok(Err)"}
       THEN /\ rc_printed' = rc_printed \o <<<<"Health check...">>,
                                            <<"Health check completed...">>>>
            /\ rc_pc' = "print"
       ELSE /\ rc_printed' = rc_printed \o <<<<"Health check...">>,
                                            <<"Server is not responding">>>>
            /\ rc_pc' = "sleep"
    /\ UNCHANGED <<rc_wallets, rc_task, rc_joined, rc_results, rc_clock,
                   otherThanBalance>>

\* sleep(Duration::from_secs(3)), then the loop starts over
Sleep ==
    /\ rc_pc = "sleep"
    /\ rc_clock' = rc_clock + RetrySeconds
    /\ rc_pc' = "health"
    /\ UNCHANGED <<rc_wallets, rc_task, rc_joined, rc_results, rc_health,
                   rc_printed, otherThanBalance>>

\* the last loop of main: one line per collected result
PrintBalances ==
    /\ rc_pc = "print"
    /\ rc_printed' = rc_printed \o
          [i \in 1..Len(rc_results) |->
              <<"Wallet", rc_results[i][1], rc_results[i][2]>>]
    /\ rc_pc' = "done"
    /\ UNCHANGED <<rc_wallets, rc_task, rc_joined, rc_results, rc_health,
                   rc_clock, otherThanBalance>>

NextBalance ==
    \/ \E ok \in BOOLEAN : ReadConfig(ok)
    \/ SpawnBalance
    \/ \E w \in 1..MaxWallets, r \in BalanceResults : BalanceResult(w, r)
    \/ JoinBalance
    \/ \E r \in HealthResults : HealthCheck(r)
    \/ Sleep
    \/ PrintBalances

SpecBalance == InitBalance /\ [][NextBalance]_vars

\* ------------------------------------------------- observation helpers
\* how often operation op occurs in a task's trace
Count(seq, op) == Cardinality({i \in 1..Len(seq) : seq[i] = op})

\* position of the first occurrence of op in seq (0: absent)
IndexOf(seq, op) ==
    IF \E i \in 1..Len(seq) : seq[i] = op
    THEN CHOOSE i \in 1..Len(seq) : seq[i] = op /\ \A j \in 1..(i - 1) : seq[j] # op
    ELSE 0

OutcomeKinds == {"TransactionHash", "SendError", "StatusError"}

IsOutcomeLine(l) == l.kind \in OutcomeKinds

\* the outcome lines the task of pair u has reported: the success line
\* (Submitted), the send error line (SubmitFailed), the status error line
\* (ConfirmFailed)
Outcomes(u) == SelectSeq(printed[u], IsOutcomeLine)

KindsOf(seq) == [i \in 1..Len(seq) |-> seq[i].kind]

RECURSIVE SumOutcomes(_)
SumOutcomes(S) ==
    IF S = {} THEN 0
    ELSE LET u == CHOOSE x \in S : TRUE
         IN Len(Outcomes(u)) + SumOutcomes(S \ {u})

\* the units whose outcome lines are exactly the kinds ks
UnitsReporting(ks) == {u \in Pairs : KindsOf(Outcomes(u)) = ks}

\* a ledger call of the task of u has failed
Failed(u) ==
    \/ blockhash_res[u] = "Err"
    \/ send_res[u] = "Err"
    \/ status_res[u] \in {"RpcErr", "SomeErr"}

\* every ledger call of the task of u has been made and has succeeded
Healthy(u) ==
    /\ blockhash_res[u] = "Ok"
    /\ send_res[u] = "Ok"
    /\ status_res[u] \in {"None", "SomeOk"}

FullTrace == <<"Instant::now", "transfer", "get_latest_blockhash",
               "new_signed_with_payer", "send_and_confirm_transaction",
               "elapsed", "get_signature_status">>

SubmittedLine(u) ==
    [kind |-> "TransactionHash",
     signature |-> SignatureOf(TransactionOf(u)),
     time |-> duration[u]]

\* ------------------------------------------------------------------ C1
\* C1 (as claimed): send_transactions dispatches exactly S*R units and,
\* once it has returned, exactly S*R outcomes have been reported whatever
\* the ledger calls answered; with S = 0 or R = 0 nothing is spawned,
\* nothing is reported and the run ends normally.
C1_OutcomeCountIsSxR ==
    /\ Len(tasks) <= NumPairs
    /\ main_pc = "done" =>
          /\ Len(tasks) = NumPairs
          /\ SumOutcomes(Pairs) = NumPairs
          /\ exit_status = "ok"

\* ------------------------------------------------------------------ C2
\* C2 (as claimed): in a completed batch every pair of the cross product
\* has exactly one outcome: none is missing, none has two.
C2_ExactlyOneOutcomePerPair ==
    main_pc = "done" => \A u \in Pairs : Len(Outcomes(u)) = 1

\* ------------------------------------------------------------------ C3
\* C3: failure isolation.  Whatever the other units do (fail at the
\* block-reference fetch, at submission or at the poll), once the batch is
\* complete every unit none of whose own calls failed has executed all its
\* steps and reported Submitted; two units that got the same answers from
\* the ledger performed the same steps and reported the same outcomes; and
\* with a single receiver and exactly one sender failing at submission
\* among otherwise healthy senders, the batch has N-1 Submitted outcomes
\* and 1 SubmitFailed.
C3_FailureIsolation ==
    /\ \A u \in Pairs, v \in Pairs :
          (u # v /\ Failed(u) /\ Healthy(v)) =>
              /\ pc[v] = "returned"
              /\ trace[v] = FullTrace
              /\ Outcomes(v) = <<SubmittedLine(v)>>
    /\ main_pc = "done" =>
          /\ \A v \in Pairs : ~Failed(v) =>
                /\ Healthy(v)
                /\ trace[v] = FullTrace
                /\ Outcomes(v) = <<SubmittedLine(v)>>
          /\ \A v \in Pairs, w \in Pairs :
                (/\ blockhash_res[v] = blockhash_res[w]
                 /\ send_res[v] = send_res[w]
                 /\ status_res[v] = status_res[w]) =>
                    /\ trace[v] = trace[w]
                    /\ KindsOf(printed[v]) = KindsOf(printed[w])
          /\ (/\ Len(receivers) = 1
              /\ Cardinality({u \in Pairs : send_res[u] = "Err"}) = 1
              /\ \A u \in Pairs : send_res[u] = "Err" \/ Healthy(u)) =>
                 /\ Cardinality(UnitsReporting(<<"TransactionHash">>)) = NumPairs - 1
                 /\ Cardinality(UnitsReporting(<<"SendError">>)) = 1

\* a completed batch of two senders and one receiver where one sender
\* failed at submission and the other is healthy
C3_Witness ==
    /\ main_pc = "done"
    /\ Len(receivers) = 1
    /\ Len(senders) >= 2
    /\ \E u \in Pairs, v \in Pairs :
          u # v /\ send_res[u] = "Err" /\ Healthy(v)

\* ------------------------------------------------------------------ C4
\* C4 (as claimed): every error inside a unit is caught in the unit and
\* becomes its outcome; no unit ends abnormally, and the batch ends
\* normally even when every unit failed.
C4_ErrorsBecomeOutcomes ==
    /\ \A u \in Pairs : pc[u] # "panicked"
    /\ \A u \in Pairs : (Finished(u) /\ Failed(u)) =>
          \E i \in 1..Len(Outcomes(u)) :
              Outcomes(u)[i].kind \in {"SendError", "StatusError"}
    /\ main_pc = "done" => exit_status = "ok"

\* ------------------------------------------------------------------ C5
\* C5: a unit whose submission call failed has terminated at once with the
\* single outcome SubmitFailed, has never called the confirmation poll and
\* has submitted only once.
C5_SubmitFailedSkipsPoll ==
    \A u \in Pairs : send_res[u] = "Err" =>
        /\ pc[u] = "returned"
        /\ printed[u] = <<SendErrorLine(u)>>
        /\ status_res[u] = "none"
        /\ Count(trace[u], "get_signature_status") = 0
        /\ Count(trace[u], "send_and_confirm_transaction") = 1

\* a completed batch in which some unit failed at submission
C5_Witness ==
    /\ main_pc = "done"
    /\ \E u \in Pairs : send_res[u] = "Err" /\ blockhash_res[u] = "Ok"

C7_PendingIsSubmitted ==
    \A u \in Pairs : status_res[u] = "None" =>
        /\ pc[u] = "returned"
        /\ printed[u] = <<SubmittedLine(u)>>
        /\ Count(trace[u], "get_signature_status") = 1

\* a unit has returned after a poll that found the signature not visible
C7_Witness ==
    \E u \in Pairs : status_res[u] = "None" /\ pc[u] = "returned"

\* ------------------------------------------------------------------ C8
\* C8: a unit polls at most once, and only after its submission has
\* returned successfully and the elapsed time has been recorded; a unit
\* whose submission succeeded has polled exactly once.
C8_PollOnceAfterSubmit ==
    \A u \in Pairs :
        /\ Count(trace[u], "get_signature_status") <= 1
        /\ Count(trace[u], "get_signature_status") = 1 =>
              /\ send_res[u] = "Ok"
              /\ duration[u] >= 0
              /\ 0 < IndexOf(trace[u], "send_and_confirm_transaction")
              /\ IndexOf(trace[u], "send_and_confirm_transaction")
                    < IndexOf(trace[u], "elapsed")
              /\ IndexOf(trace[u], "elapsed")
                    < IndexOf(trace[u], "get_signature_status")
        /\ send_res[u] = "Ok" => Count(trace[u], "get_signature_status") = 1
        /\ status_res[u] # "none" => Count(trace[u], "get_signature_status") = 1

\* a unit has returned from its poll while another unit has not yet
\* submitted
C8_Witness ==
    \E u \in Pairs, v \in Pairs :
        /\ u # v
        /\ status_res[u] = "SomeOk" /\ pc[u] = "returned"
        /\ pc[v] = "get_latest_blockhash"

\* ------------------------------------------------------------------ C9
\* C9 (as claimed): every unit that has terminated has called the
\* submission exactly once.
C9_SubmitsExactlyOnce ==
    \A u \in Pairs : Finished(u) =>
        Count(trace[u], "send_and_confirm_transaction") = 1

\* C9 (amended): a unit never submits more than once; a terminated unit
\* has submitted exactly once when its block-reference fetch succeeded and
\* not at all when the fetch failed (the unit then ends in a panic).
C9_SubmitsAtMostOnce ==
    \A u \in Pairs :
        /\ Count(trace[u], "send_and_confirm_transaction") <= 1
        /\ Finished(u) =>
              /\ blockhash_res[u] = "Ok" =>
                    Count(trace[u], "send_and_confirm_transaction") = 1
              /\ blockhash_res[u] = "Err" =>
                    /\ Count(trace[u], "send_and_confirm_transaction") = 0
                    /\ pc[u] = "panicked"
              /\ blockhash_res[u] # "none"

\* a completed batch with a unit that submitted and failed and a unit
\* whose block-reference fetch failed
C9_Witness ==
    /\ main_pc = "done"
    /\ \E u \in Pairs, v \in Pairs :
          /\ send_res[u] = "Err"
          /\ blockhash_res[v] = "Err"

\* ----------------------------------------------------------------- C10
\* C10 (as claimed): the recorded duration covers the submission only: the
\* start timestamp is taken after the block-reference fetch has returned
\* and the stop before the poll.
C10_DurationIsSubmissionOnly ==
    \A u \in Pairs : duration[u] >= 0 =>
        /\ duration[u] = delay["send"]
        /\ IndexOf(trace[u], "get_latest_blockhash")
              < IndexOf(trace[u], "Instant::now")

\* C10 (amended): the start timestamp is taken before the block-reference
\* fetch is called and the stop after submission acceptance and before
\* the poll, so the recorded (and printed) duration covers the fetch and
\* the submission and excludes the poll.
C10_DurationIsFetchPlusSubmission ==
    \A u \in Pairs : duration[u] >= 0 =>
        /\ duration[u] = delay["blockhash"] + delay["send"]
        /\ Outcomes(u)[1].time = delay["blockhash"] + delay["send"]
        /\ IndexOf(trace[u], "Instant::now")
              < IndexOf(trace[u], "get_latest_blockhash")
        /\ IndexOf(trace[u], "send_and_confirm_transaction")
              < IndexOf(trace[u], "elapsed")
        /\ IndexOf(trace[u], "elapsed")
              < IndexOf(trace[u], "get_signature_status")

\* a unit has finished its poll with a fetch that took longer than the
\* submission
C10_Witness ==
    \E u \in Pairs : /\ status_res[u] # "none"
                     /\ duration[u] >= 0
                     /\ delay["blockhash"] > delay["send"]

\* ----------------------------------------------------------------- C11
\* C11: every transaction is built with the block reference its own unit
\* fetched for it: nothing is signed before the unit's own fetch has
\* returned, the unit fetches once, after it was spawned and before it
\* signs, and no two units sign with the same reference.
C11_OwnFreshBlockReference ==
    \A u \in Pairs :
        /\ pc[u] \in {"unspawned", "spawned"} =>
              Count(trace[u], "get_latest_blockhash") = 0
        /\ blockhash_res[u] # "Ok" => transaction[u] = NoTransaction
        /\ transaction[u] # NoTransaction =>
              /\ transaction[u].recent_blockhash = BlockhashOf(u)
              /\ Count(trace[u], "get_latest_blockhash") = 1
              /\ 0 < IndexOf(trace[u], "get_latest_blockhash")
              /\ IndexOf(trace[u], "get_latest_blockhash")
                    < IndexOf(trace[u], "new_signed_with_payer")
              /\ \A v \in Pairs \ {u} :
                    transaction[v].recent_blockhash
                       # transaction[u].recent_blockhash

\* two units have each built their transaction
C11_Witness ==
    \E u \in Pairs, v \in Pairs :
        /\ u # v
        /\ transaction[u] # NoTransaction
        /\ transaction[v] # NoTransaction

\* ----------------------------------------------------------------- C12
\* C12 (as claimed): when every ledger call returns and tasks are
\* scheduled fairly, send_transactions eventually returns and every
\* requested pair has by then yielded its outcome.
C12_EveryPairYieldsOutcome ==
    <>(main_pc = "done" /\ \A u \in Pairs : Len(Outcomes(u)) >= 1)

\* ----------------------------------------------------------------- C13
\* C13: the join is a barrier: when send_transactions has returned every
\* handle has been awaited and every spawned unit has finished, and after
\* the return no unit takes a step or reports anything.
C13_JoinIsBarrier ==
    /\ [](main_pc = "done" =>
            /\ joined = NumPairs
            /\ Len(tasks) = NumPairs
            /\ \A u \in Pairs : Finished(u))
    /\ [][main_pc = "done" => (printed' = printed /\ pc' = pc)]_vars

\* a batch of several units has returned, some units having panicked and
\* some having returned
C13_Witness ==
    /\ main_pc = "done"
    /\ NumPairs >= 2
    /\ \E u \in Pairs, v \in Pairs : pc[u] = "panicked" /\ pc[v] = "returned"

\* ----------------------------------------------------------------- C15
\* C15 (as claimed): the transaction built for a pair holds exactly one
\* transfer instruction that moves the configured amount from the sender
\* address of the wallet set (the address shown in the pair's lines) to
\* the receiver address, names that sender address as fee payer, and is
\* signed with the sender's key and the block reference fetched for it.
C15_TransferFromShownSender ==
    \A u \in Pairs : transaction[u] # NoTransaction =>
        /\ transaction[u].instructions =
              <<Transfer(senders[u[1]].public_key,
                         receivers[u[2]].public_key, LAMPORTS)>>
        /\ transaction[u].payer = senders[u[1]].public_key
        /\ transaction[u].signers = <<senders[u[1]].private_key>>
        /\ transaction[u].recent_blockhash = BlockhashOf(u)
        /\ send_res[u] = "Err" =>
              printed[u][1].sender = transaction[u].instructions[1].from

\* ----------------------------------------------------------------- C16
\* a piece is a decimal number: digits only, at least one
IsDecimalText(str) ==
    /\ str # <<>>
    /\ \A i \in 1..Len(str) : str[i] \in {"0", "1", "2", "3", "4", "5",
                                         "6", "7", "8", "9"}

\* a piece is numeric: a decimal number, possibly written with a "+"
IsNumericText(str) ==
    \/ IsDecimalText(str)
    \/ str # <<>> /\ str[1] = "+" /\ IsDecimalText(Tail(str))

\* the value of a numeric piece, digit by digit from the left
RECURSIVE ValueOfText(_, _)
ValueOfText(str, acc) ==
    IF str = <<>> THEN acc
    ELSE IF str[1] = "+" THEN ValueOfText(Tail(str), acc)
    ELSE ValueOfText(Tail(str),
             acc * 10 + (CHOOSE d \in 0..9 : DigitChars[d + 1] = str[1]))

\* the input is a list in brackets: "[", pieces without brackets, "]"
IsBracketed(str) ==
    /\ Len(str) >= 2
    /\ str[1] = "["
    /\ str[Len(str)] = "]"
    /\ \A i \in 2..(Len(str) - 1) : str[i] \notin {"[", "]"}

\* the entries of a bracketed list, white space around them removed
EntriesOf(str) ==
    LET pieces == Split(SubSeq(str, 2, Len(str) - 1), ",")
    IN [i \in 1..Len(pieces) |-> Trim(pieces[i])]

\* C16: for a bracketed, comma-separated list, parse_bytes_from_string
\* returns an error and no bytes when some entry is not numeric (an empty
\* entry and the empty list included) or is outside 0..255, and otherwise
\* returns exactly the values of the entries, in order.
C16_ParsesByteList ==
    (parsed.done /\ IsBracketed(input)) =>
        LET entries == EntriesOf(input)
        IN IF \E i \in 1..Len(entries) :
                 \/ ~IsNumericText(entries[i])
                 \/ ValueOfText(entries[i], 0) > 255
           THEN ~parsed.ok /\ parsed.bytes = <<>>
           ELSE /\ parsed.ok
                /\ parsed.bytes =
                      [i \in 1..Len(entries) |-> ValueOfText(entries[i], 0)]

\* a bracketed list of two bytes has been parsed
C16_Witness ==
    /\ parsed.done
    /\ parsed.ok
    /\ IsBracketed(input)
    /\ Len(parsed.bytes) = 2

\* ----------------------------------------------------------------- C17
\* C17: in the streaming variant at most one send-and-confirm sequence is
\* running at any moment, and a transfer starts only when the poll of
\* every earlier transfer has returned (Ok, the task having gone back to
\* recv), however many updates arrived in the meantime.
C17_OneTransferAtATime ==
    /\ [](Cardinality(Running) <= 1)
    /\ [][Len(transfers') > Len(transfers) =>
            \A n \in 1..Len(transfers) : transfers[n] = "polled"]_vars

\* a second transfer is running while a later update waits in the channel
C17_Witness ==
    /\ Len(transfers) >= 2
    /\ transfers[Len(transfers)] \in InProgress
    /\ chan > 0

\* ---------------------------------------------------------- C18, C19, C20
\* the account is on the ledger
Exists(account) == account.lamports # U64(0)

\* the account has never been used
IsNew(account) == account.lamports = U64(0) /\ account.owner = SystemProgram

\* call c was built as the tests build the creation: a new deposit
\* account and a payer that holds the rent-exempt minimum
IsTestCreate(c) ==
    /\ c.sent = ProcessCreateDeposit
    /\ IsNew(c.before.deposit)
    /\ ~LtU64(c.before.user.lamports, U64(RentExemptMinimum))

\* C18: a ProcessCreateDeposit instruction built as the tests build it and
\* signed by the user and the new deposit account succeeds and leaves the
\* deposit account existing and owned by the program; without the user's
\* signature the call fails with MissingRequiredSignature and changes no
\* account.
C18_CreateDeposit ==
    \A i \in 1..Len(calls) :
        LET c == calls[i]
        IN IsTestCreate(c) =>
              /\ (c.user_signer /\ c.deposit_signer) =>
                    /\ c.result = "Ok"
                    /\ Exists(c.after.deposit)
                    /\ c.after.deposit.owner = ProgramId
              /\ ~c.user_signer =>
                    /\ c.result = "MissingRequiredSignature"
                    /\ c.after = c.before
                    /\ ~Exists(c.after.deposit)

\* both cases of C18 have happened: a signed creation, then one that the
\* user did not sign
C18_Witness ==
    \E i, j \in 1..Len(calls) :
        /\ IsTestCreate(calls[i])
        /\ calls[i].user_signer /\ calls[i].deposit_signer
        /\ calls[i].result = "Ok"
        /\ calls[j].sent = ProcessCreateDeposit
        /\ ~calls[j].user_signer
        /\ calls[j].result = "MissingRequiredSignature"

\* C19: whenever a creation built as the tests build it, a
\* ProcessDepositTranfer of D and a ProcessWithdraw of W <= D have been
\* submitted in that order, Borsh-encoded and signed as in the tests, all
\* three calls have succeeded and the deposit account holds D - W.
C19_DepositThenWithdraw ==
    \A D, W \in Amounts :
        ( /\ ~LtU64(D, W)
          /\ Len(calls) = 3
          /\ IsTestCreate(calls[1])
          /\ calls[1].user_signer /\ calls[1].deposit_signer
          /\ calls[2].sent = ProcessDepositTranfer(D)
          /\ calls[2].user_signer
          /\ calls[3].sent = ProcessWithdraw(W)
          /\ calls[3].user_signer )
        => /\ \A i \in 1..3 : calls[i].result = "Ok"
           /\ deposit_account.lamports = WrappingSub(D, W)

\* C20: every instruction built from a DepositInstruction by its Borsh
\* encoding is unpacked to that DepositInstruction, and process_instruction
\* has run the handler of the variant that was encoded.
C20_UnpackInvertsBorsh ==
    \A i \in 1..Len(calls) :
        LET c == calls[i]
        IN c.sent # NotBuilt =>
              /\ Unpack(c.data) = [ok |-> TRUE, ins |-> c.sent]
              /\ c.handler = HandlerOf(c.sent)

\* ----------------------------------------------------------------- C21
\* the amount process_instruction handed to the handler of call c
AmountOf(c) == Unpack(c.data).ins.amount

\* the two balances of a call added without loss: 8 bytes and the carry
TotalOf(accounts) ==
    AddWithCarry(accounts.user.lamports, accounts.deposit.lamports, 0)

\* call c took amount from the balance `from` and added it to `to`, and
\* neither the difference nor the sum left the u64 range
MovedExactly(from_before, from_after, to_before, to_after, amount) ==
    /\ ~SubOverflows(from_before, amount)
    /\ from_after = WrappingSub(from_before, amount)
    /\ ~AddOverflows(to_before, amount)
    /\ to_after = WrappingAdd(to_before, amount)

SourceOf(c) ==
    IF c.handler = "process_deposit"
    THEN c.before.user.lamports
    ELSE c.before.deposit.lamports

\* C22: a call of process_deposit or process_withdraw fails with
\* MissingRequiredSignature when the user has not signed, else with
\* IncorrectProgramId when the deposit account is not the program's, else
\* with InsufficientFunds when the source balance is below the amount; in
\* each case both accounts are left as they were.
C22_ChecksInOrder ==
    \A i \in 1..Len(calls) :
        LET c == calls[i]
        IN c.handler \in {"process_deposit", "process_withdraw"} =>
              IF ~c.user_signer
              THEN c.result = "MissingRequiredSignature" /\ c.after = c.before
              ELSE IF c.before.deposit.owner # ProgramId
              THEN c.result = "IncorrectProgramId" /\ c.after = c.before
              ELSE IF LtU64(SourceOf(c), AmountOf(c))
              THEN c.result = "InsufficientFunds" /\ c.after = c.before
              ELSE c.result \in {"Ok", "Panic"}

\* a signed withdrawal from an account of another program that also holds
\* too little has been refused: the owner check came first
C22_Witness ==
    \E i \in 1..Len(calls) :
        /\ calls[i].handler = "process_withdraw"
        /\ calls[i].user_signer
        /\ calls[i].before.deposit.owner # ProgramId
        /\ LtU64(calls[i].before.deposit.lamports, AmountOf(calls[i]))
        /\ calls[i].result = "IncorrectProgramId"

\* ----------------------------------------------------------------- C23
\* the data is empty, has a tag above 3, or has tag 1 or 3 and a payload
\* that is not 8 bytes long
IsInvalidData(data) ==
    \/ data = <<>>
    \/ /\ data # <<>>
       /\ \/ data[1] > 3
          \/ data[1] \in {1, 3} /\ Len(data) - 1 # 8

\* what call c left behind, as a handler states it
OutcomeOfCall(c) == Outcome(c.result, c.after.user, c.after.deposit)

FailedTransfer == {"send_failed", "poll_failed"}

\* a failed transfer is the last one and the sender task has returned
FailureEndsSender ==
    \A n \in 1..Len(transfers) :
        transfers[n] \in FailedTransfer =>
            /\ sender_pc = "returned"
            /\ n = Len(transfers)

\* once the sender task has returned it stays so and starts no transfer
NoTransferAfterReturn ==
    sender_pc = "returned" =>
        /\ sender_pc' = "returned"
        /\ transfers' = transfers

\* the loop still spawns a trigger task for every update it receives
StillSpawnsTriggers ==
    (sender_pc = "returned" /\ updates' > updates) => pending' = pending + 1

\* C25 as stated: the first failed transfer ends the sender task, no
\* transfer follows it, and the triggers of later updates are still put
\* into the channel.
C25_EndsAndKeepsQueuing ==
    /\ []FailureEndsSender
    /\ [][NoTransferAfterReturn]_vars
    /\ [][StillSpawnsTriggers]_vars
    /\ [][(sender_pc = "returned" /\ pending' < pending) =>
             chan' = chan + 1]_vars

\* C25 amended: the first failed transfer ends the sender task and no
\* transfer follows it; the loop still spawns a trigger task per update,
\* but the channel went with the task: it holds nothing and a trigger's
\* send puts nothing into it.
C25_EndsAndDiscardsTriggers ==
    /\ []FailureEndsSender
    /\ [](sender_pc = "returned" => chan = 0)
    /\ [][NoTransferAfterReturn]_vars
    /\ [][StillSpawnsTriggers]_vars
    /\ [][(sender_pc = "returned" /\ pending' < pending) => chan' = 0]_vars

\* the only transfer failed, and since then more triggers have completed
\* their send than the channel and the task could have taken before
C25_Witness ==
    /\ sender_pc = "returned"
    /\ Len(transfers) = 1
    /\ pending = 0
    /\ updates > ChannelCapacity + 1

\* ----------------------------------------------------------------- C24
\* how many health checks so far did not succeed
FailedHealthChecks ==
    Cardinality({i \in 1..Len(rc_health) : rc_health[i] # "Ok(Ok)"})

\* how often main has printed line l
TimesPrinted(l) ==
    Cardinality({i \in 1..Len(rc_printed) : rc_printed[i][1] = l})

\* C24: every health check that does not succeed is reported as "Server
\* is not responding" and followed by a wait of 3 seconds and another
\* check; the program is past the loop only when the last health check
\* succeeded.
C24_RetriesUntilHealthy ==
    /\ TimesPrinted("Server is not responding") = FailedHealthChecks
    /\ rc_clock + (IF rc_pc = "sleep" THEN RetrySeconds ELSE 0)
          = RetrySeconds * FailedHealthChecks
    /\ (rc_pc \in {"print", "done"} /\ rc_wallets > 0) =>
          /\ rc_health # <<>>
          /\ rc_health[Len(rc_health)] = "Ok(Ok)"

====
